---------------------------- MODULE Spec2Model ----------------------------
(***************************************************************************)
(* The BME280 acquisition thread, the Tuya token manager and cloud sync,   *)
(* and the Flask query handler of temp_sensor.py, as one state machine.    *)
(*                                                                         *)
(* Numbers.  Python computes the compensation formulas in binary floating  *)
(* point.  Here every formula is evaluated exactly, as a fraction whose    *)
(* denominator is a power of two (times a power of ten for the heat        *)
(* index), on multi-limb integers; the published Reading is carried in     *)
(* thousandths of a unit, truncated toward zero.  The temperature is the   *)
(* exception: it is carried exactly as well, as t_fine (temperature =      *)
(* t_fine / 5120.0).                                                       *)
(***************************************************************************)
EXTENDS Integers, Sequences, FiniteSets, TLC

(***************************************************************************)
(* Multi-limb arithmetic: a magnitude is a little-endian sequence of limbs *)
(* in 0..LimbBase-1 without leading zero limbs, a signed number a record   *)
(* [neg, mag].  Every intermediate product stays below 2^31.               *)
(***************************************************************************)
LimbBits == 3 * 5
LimbBase == 2^LimbBits

RECURSIVE Pow2(_)
Pow2(k) == IF k = 0 THEN 1 ELSE 2 * Pow2(k - 1)

RECURSIVE NatMag(_)
NatMag(n) == IF n = 0 THEN <<>> ELSE <<n % LimbBase>> \o NatMag(n \div LimbBase)

RECURSIVE Norm(_)
Norm(a) ==
    IF a = <<>> THEN a
    ELSE IF a[Len(a)] = 0 THEN Norm(SubSeq(a, 1, Len(a) - 1)) ELSE a

Limb(a, i) == IF i <= Len(a) THEN a[i] ELSE 0

MaxOf(x, y) == IF x >= y THEN x ELSE y

RECURSIVE AddFrom(_, _, _, _)
AddFrom(a, b, i, c) ==
    IF i > MaxOf(Len(a), Len(b))
    THEN (IF c = 0 THEN <<>> ELSE <<c>>)
    ELSE LET s == Limb(a, i) + Limb(b, i) + c
         IN  <<s % LimbBase>> \o AddFrom(a, b, i + 1, s \div LimbBase)

AddMag(a, b) == AddFrom(a, b, 1, 0)

RECURSIVE SubFrom(_, _, _, _)
SubFrom(a, b, i, c) ==
    IF i > Len(a) THEN <<>>
    ELSE LET s == Limb(a, i) - Limb(b, i) - c
         IN  <<(s + LimbBase) % LimbBase>> \o
             SubFrom(a, b, i + 1, IF s < 0 THEN 1 ELSE 0)

\* a - b for magnitudes with a >= b
SubMag(a, b) == Norm(SubFrom(a, b, 1, 0))

RECURSIVE CmpFrom(_, _, _)
CmpFrom(a, b, i) ==
    IF i = 0 THEN 0
    ELSE IF a[i] > b[i] THEN 1
    ELSE IF a[i] < b[i] THEN -1
    ELSE CmpFrom(a, b, i - 1)

\* -1, 0 or 1 as a < b, a = b, a > b
CmpMag(a, b) ==
    IF Len(a) > Len(b) THEN 1
    ELSE IF Len(a) < Len(b) THEN -1
    ELSE CmpFrom(a, b, Len(a))

RECURSIVE MulLimbFrom(_, _, _, _)
MulLimbFrom(a, m, i, c) ==
    IF i > Len(a) THEN (IF c = 0 THEN <<>> ELSE <<c>>)
    ELSE LET s == a[i] * m + c
         IN  <<s % LimbBase>> \o MulLimbFrom(a, m, i + 1, s \div LimbBase)

RECURSIVE MulFrom(_, _, _)
MulFrom(a, b, j) ==
    IF j > Len(b) THEN <<>>
    ELSE AddMag(MulLimbFrom(a, b[j], 1, 0), <<0>> \o MulFrom(a, b, j + 1))

MulMag(a, b) == Norm(MulFrom(a, b, 1))

\* floor(a / 2^k)
ShrMag(a, k) ==
    LET q == k \div LimbBits
        r == k % LimbBits
        lo == Pow2(r)
        hi == Pow2(LimbBits - r)
        n == Len(a) - q
    IN  IF n <= 0 THEN <<>>
        ELSE Norm([i \in 1..n |->
                 (a[q + i] \div lo) + (Limb(a, q + i + 1) % lo) * hi])

\* a * 2^k
ShlMag(a, k) == MulMag(a, [i \in 1..(k \div LimbBits) + 1 |->
                   IF i = (k \div LimbBits) + 1 THEN Pow2(k % LimbBits) ELSE 0])

RECURSIVE DivFrom(_, _, _, _)
DivFrom(a, d, i, r) ==
    IF i = 0 THEN <<>>
    ELSE LET s == r * LimbBase + a[i]
         IN  DivFrom(a, d, i - 1, s % d) \o <<s \div d>>

\* floor(a / d) for a divisor 0 < d < LimbBase
DivSmall(a, d) == Norm(DivFrom(a, d, Len(a), 0))

RECURSIVE MagNat(_)
MagNat(a) == IF a = <<>> THEN 0 ELSE a[1] + LimbBase * MagNat(Tail(a))

Abs(n) == IF n < 0 THEN -n ELSE n

Big(n) == [neg |-> n < 0, mag |-> NatMag(Abs(n))]
BigOf(neg, mag) == [neg |-> neg /\ mag # <<>>, mag |-> mag]
BigNeg(x) == BigOf(~x.neg, x.mag)
BigAdd(x, y) ==
    IF x.neg = y.neg THEN BigOf(x.neg, AddMag(x.mag, y.mag))
    ELSE IF CmpMag(x.mag, y.mag) >= 0 THEN BigOf(x.neg, SubMag(x.mag, y.mag))
    ELSE BigOf(y.neg, SubMag(y.mag, x.mag))
BigSub(x, y) == BigAdd(x, BigNeg(y))
BigMul(x, y) == BigOf(x.neg # y.neg, MulMag(x.mag, y.mag))
BigShl(x, k) == BigOf(x.neg, ShlMag(x.mag, k))
\* x / 2^k truncated toward zero, as Python's int() truncates
BigShrTrunc(x, k) == BigOf(x.neg, ShrMag(x.mag, k))
BigDivTrunc(x, d) == BigOf(x.neg, DivSmall(x.mag, d))
BigInt(x) == IF x.neg THEN -MagNat(x.mag) ELSE MagNat(x.mag)
BigLess(x, y) == BigSub(x, y).neg

(***************************************************************************)
(* Compensation Engine (pure functions).                                   *)
(***************************************************************************)
\* Thousandths of a unit in the value num / 2^sh, truncated toward zero.
Milli(num, sh) == BigInt(BigShrTrunc(BigMul(num, Big(1000)), sh))

\* Fraction bits of a humidity value handed from compensate_humidity on.
HumFrac == 40
\* A bug: the upper clamp is min(200.0, var_h).
HumMaxLoose == BigShl(Big(200), HumFrac)

HumMax == BigShl(Big(100), HumFrac)

\* compensate_temperature: var1 = d*T2/2^14 and var2 = d^2*T3/2^34 with
\* d = raw_temp - 16*T1, so var1 + var2 = (d*T2*2^20 + d*d*T3) / 2^34;
\* t_fine = int(var1 + var2) truncates toward zero.  The except branch
\* (25.0, 0) cannot be taken: the body divides by literals only.
compensate_temperature(raw_temp, calib_T) ==
    LET dig_T1 == calib_T[1]
        dig_T2 == calib_T[2]
        dig_T3 == calib_T[3]
        d == Big(raw_temp - 16 * dig_T1)
        var1 == BigShl(BigMul(d, Big(dig_T2)), 20)
        var2 == BigMul(BigMul(d, d), Big(dig_T3))
        t_fine == BigInt(BigShrTrunc(BigAdd(var1, var2), 34))
    IN  [temperature |-> (t_fine * 25) \div 128 + (IF t_fine < 0 /\ (t_fine * 25) % 128 # 0 THEN 1 ELSE 0),
         t_fine |-> t_fine]

\* compensate_humidity, in units of 2^-HumFrac percent.  With v = t_fine - 76800:
\*   x = raw_hum - (H4*64 + H5/16384*v)                = X / 2^14
\*   y = H2/65536 * (1 + H6/2^26*v*(1 + H3/2^26*v))    = Y / 2^68
\*   var_h = x*y = V / 2^82;  var_h*(1 - H1*var_h/2^19) = F / 2^183
\* then max(0.0, min(100.0, .)).  The else branch gives 0.0.
compensate_humidity(raw_hum, calib_H, t_fine) ==
    LET dig_H1 == calib_H[1]
        dig_H2 == calib_H[2]
        dig_H3 == calib_H[3]
        dig_H4 == calib_H[4]
        dig_H5 == calib_H[5]
        dig_H6 == calib_H[6]
        v == Big(t_fine - 76800)
        X == BigSub(BigShl(Big(raw_hum - dig_H4 * 64), 14), BigMul(Big(dig_H5), v))
        I == BigAdd(BigShl(Big(1), 26), BigMul(Big(dig_H3), v))
        M == BigAdd(BigShl(Big(1), 52), BigMul(BigMul(Big(dig_H6), v), I))
        Y == BigMul(Big(dig_H2), M)
        V == BigMul(X, Y)
        F == BigMul(V, BigSub(BigShl(Big(1), 101), BigMul(Big(dig_H1), V)))
        h == BigShrTrunc(F, 183 - HumFrac)
    IN  IF t_fine - 76800 # 0
        THEN (IF F.neg THEN Big(0)
              ELSE IF BigLess(HumMax, h) THEN HumMax ELSE h)
        ELSE Big(0)

\* The nine coefficients of the heat index polynomial, times 10^9, with the
\* powers of T and R each multiplies.
HeatTerms ==
    << <<363445176, 0, 0>>, <<988622465, 1, 0>>, <<8184780, 0, 1>>,
       <<144105, 1, 1>>, <<-54777, 2, 0>>, <<-1212270, 0, 2>>,
       <<38646, 2, 1>>, <<29039, 1, 2>>, <<-1870, 2, 2>> >>

RECURSIVE BigPow(_, _)
BigPow(x, n) == IF n = 0 THEN Big(1) ELSE BigMul(x, BigPow(x, n - 1))

\* One term c * T^a * R^b over the common denominator
\* 10^9 * 5120^2 * 2^(2*HumFrac), with T = t_fine/5120 and R = hum/2^HumFrac.
HeatTerm(term, t_fine, hum) ==
    BigShl(BigMul(BigMul(Big(term[1]),
                         BigMul(BigPow(Big(t_fine), term[2]),
                                BigPow(Big(5120), 2 - term[2]))),
                  BigPow(hum, term[3])),
           HumFrac * (2 - term[3]))

RECURSIVE HeatSum(_, _, _)
HeatSum(i, t_fine, hum) ==
    IF i > Len(HeatTerms) THEN Big(0)
    ELSE BigAdd(HeatTerm(HeatTerms[i], t_fine, hum), HeatSum(i + 1, t_fine, hum))

\* A bug: the polynomial is used below 26.0 degrees too.
calculate_heat_index_unguarded(temp, hum) ==
    BigInt(BigDivTrunc(BigDivTrunc(BigDivTrunc(
        BigShrTrunc(HeatSum(1, temp.t_fine, hum), 2 * HumFrac + 20),
        1000), 1000), 25))

\* calculate_heat_index, in thousandths of a degree.  temperature < 26.0 is
\* t_fine < 26 * 5120; the result is then the temperature itself.
\* 10^9 * 5120^2 / 1000 = 1000 * 1000 * 25 * 2^20.
calculate_heat_index(temp, hum) ==
    IF temp.t_fine < 26 * 5120 THEN temp.temperature
    ELSE BigInt(BigDivTrunc(BigDivTrunc(BigDivTrunc(
             BigShrTrunc(HeatSum(1, temp.t_fine, hum), 2 * HumFrac + 20),
             1000), 1000), 25))

(***************************************************************************)
(* Constants of the program.                                               *)
(***************************************************************************)
BME280_REGISTER_CTRL_HUM == 242
BME280_REGISTER_CTRL_MEAS == 244
BME280_REGISTER_CONFIG == 245
tuya_update_interval == 300

\* Python's None, and a value that is present: sensor_data's fields, the
\* access token and the keys of a decoded response body are one or the other.
None == <<>>
Some(v) == <<v>>
Val(o) == o[1]

(***************************************************************************)
(* Inputs: what the bus, the clock and the cloud authority may answer.     *)
(***************************************************************************)
\* The wall clock at the start of the thread (seconds), and the last
\* reading of it the model follows.
StartTime == 1000
\* The passes of the sampling loop the model follows.
MaxCycles == 3

\* Chip-identity bytes the register read may return.
ChipIds == {96, 97}

\* Register images of the calibration area: the bytes at 0x88..0x8D, 0xA1
\* and 0xE1..0xE7.
CalibImages ==
    { [T1 |-> <<69, 111>>, T2 |-> <<111, 104>>, T3 |-> <<249, 255>>,
       H1 |-> 75, H2 |-> <<114, 1>>, H3 |-> 0,
       e4 |-> 18, e5 |-> 52, e6 |-> 86, H6 |-> 226] }

\* The sets of bus reads of read_calibration_data (of T1, T2, T3, H1, H2, H3,
\* e4, e5, e6, H6) that fail with a transport fault in one run.
CalibFaults == {{}, {"T2"}, {"H6"}}

\* The ten bus reads of read_calibration_data.
CalibReads == {"T1", "T2", "T3", "H1", "H2", "H3", "e4", "e5", "e6", "H6"}

\* What the bus may answer to the Calibration Loader when it is followed on
\* its own: every pair of bytes at 0x8A (T2) with no read faulting, and the
\* image of CalibImages with one read faulting, or some of the 2-byte reads.
LoaderAnswers ==
    { <<[img EXCEPT !.T2 = <<b[1], b[2]>>], {}>> :
        img \in CalibImages, b \in (0..255) \X (0..255) }
    \cup { <<img, {r}>> : img \in CalibImages, r \in CalibReads }
    \cup { <<img, f>> : img \in CalibImages, f \in SUBSET {"T1", "T3", "H2"} }

\* 8-byte bursts read at 0xF7 (pressure, temperature, humidity).
Bursts ==
    { <<128, 0, 0, 126, 237, 0, 117, 48>>,
      <<128, 0, 0, 131, 213, 96, 125, 0>>,
      <<128, 0, 0, 128, 0, 0, 117, 48>>,
      <<128, 0, 0, 126, 237, 0, 128, 0>>,
      <<128, 0, 0, 255, 255, 240, 117, 48>>,
      <<128, 0, 0, 126, 237, 0, 255, 255>> }

\* What the bus may answer when the Compensation Engine is followed on its
\* own.  Calibration images: the one of CalibImages, and the same with
\* coefficient bytes at the ends of their ranges; the last answer makes the
\* loader return the nominal set.
EngineImages ==
    UNION { { img,
              [img EXCEPT !.H1 = 255, !.H2 = <<255, 127>>, !.H3 = 255,
                          !.e4 = 255, !.e5 = 255, !.e6 = 255, !.H6 = 127],
              [img EXCEPT !.H1 = 0, !.H2 = <<0, 128>>, !.H3 = 0,
                          !.e4 = 0, !.e5 = 0, !.e6 = 0, !.H6 = 128],
              [img EXCEPT !.H2 = <<255, 127>>],
              [img EXCEPT !.H2 = <<0, 128>>],
              [img EXCEPT !.H1 = 255],
              [img EXCEPT !.T2 = <<255, 127>>],
              [img EXCEPT !.T1 = <<255, 255>>, !.T3 = <<0, 128>>] } :
            img \in CalibImages }
EngineAnswers ==
    { <<img, {}>> : img \in EngineImages }
    \cup { <<img, {"H6"}>> : img \in CalibImages }

\* Bursts: raw temperatures 0, 0x7AC2A (t_fine = 76800 under the image of
\* CalibImages), 0x7EED0, 0x83D56 and 0xFFFFE with raw humidities 0, 1,
\* 30000, 0x7FFF and 0xFFFE, and one burst with a sentinel.
EngineBursts ==
    { <<128, 0, 0>> \o t \o h :
        t \in { <<0, 0, 0>>, <<122, 194, 160>>, <<126, 237, 0>>,
                 <<131, 213, 96>>, <<255, 255, 224>> },
        h \in { <<0, 0>>, <<0, 1>>, <<117, 48>>, <<127, 255>>, <<255, 254>> } }
    \cup { <<128, 0, 0, 128, 0, 0, 117, 48>> }

\* Seconds a time.sleep(2), a time.sleep(1) and an HTTP exchange may take.
SleepTimes == {2, 300}
SkipSleepTimes == {1}
NetDelays == {1}

\* The access tokens the authority grants, each with its expire_time.
TokenGrants == {<<"tokA", 360>>, <<"tokB", 30>>}

\* Answers to GET /v1.0/token: a network fault, or a status with a body
\* that is JSON or not and holds or lacks "success", "result" and the two
\* keys of "result".
HttpResponse(status, json, success, result, access_token, expire_time) ==
    [kind |-> "http", status |-> status, json |-> json, success |-> success,
     result |-> result, access_token |-> access_token, expire_time |-> expire_time]
NetworkFault == [kind |-> "fault"]
TokenResponses ==
    { NetworkFault,
      HttpResponse(500, TRUE, FALSE, FALSE, None, None),
      HttpResponse(200, FALSE, FALSE, FALSE, None, None),
      HttpResponse(200, TRUE, FALSE, FALSE, None, None),
      HttpResponse(200, TRUE, TRUE, FALSE, None, None),
      HttpResponse(200, TRUE, TRUE, TRUE, None, Some(360)),
      HttpResponse(200, TRUE, TRUE, TRUE, Some("tokB"), None) }
    \cup { HttpResponse(200, TRUE, TRUE, TRUE, Some(g[1]), Some(g[2])) :
             g \in TokenGrants }
\* Answers to POST /v1.0/devices/{id}/commands.
PushResponses ==
    { NetworkFault,
      HttpResponse(500, TRUE, FALSE, FALSE, None, None),
      HttpResponse(200, FALSE, FALSE, FALSE, None, None),
      HttpResponse(200, TRUE, FALSE, FALSE, None, None),
      HttpResponse(200, TRUE, TRUE, FALSE, None, None) }

(***************************************************************************)
(* Register Codec and Calibration Loader.                                  *)
(***************************************************************************)
\* read_unsigned_short, little-endian; a transport fault gives 0.
read_unsigned_short(data, fault) ==
    IF fault THEN 0 ELSE data[1] + data[2] * 256

\* A bug: the sign test is `val <= 32768`.
read_signed_short_inclusive(data, fault) ==
    IF fault THEN 0
    ELSE LET val == data[1] + data[2] * 256
         IN  IF val <= 32768 THEN val ELSE val - 65536

\* read_signed_short, little-endian; a transport fault gives 0.
read_signed_short(data, fault) ==
    IF fault THEN 0
    ELSE LET val == data[1] + data[2] * 256
         IN  IF val < 32768 THEN val ELSE val - 65536

\* The coefficient set returned from the except branch.
DefaultCalibration ==
    [T |-> <<27504, 26435, -1000>>, H |-> <<75, 360, 0, 300, 50, 30>>]

\* A fault of one of the six bus.read_byte_data calls leaves the try block.
RaisesInCalibration(faults) ==
    faults \cap {"H1", "H3", "e4", "e5", "e6", "H6"} # {}

\* A bug: H4 takes the high nibble of e5, as H5 does.
dig_H4_high_nibble(e4, e5) == e4 * 16 + (e5 \div 16)

\* (e4 << 4) | (e5 & 0x0F): the low nibble of e5 under the twelve bits.
dig_H4(e4, e5) == e4 * 16 + (e5 % 16)
\* (e6 << 4) | (e5 >> 4)
dig_H5(e5, e6) == e6 * 16 + (e5 \div 16)
dig_H6(raw) == IF raw > 127 THEN raw - 256 ELSE raw

\* read_calibration_data on a register image, the reads in `faults` failing.
read_calibration_data(img, faults) ==
    IF RaisesInCalibration(faults) THEN DefaultCalibration
    ELSE [T |-> << read_unsigned_short(img.T1, "T1" \in faults),
                   read_signed_short(img.T2, "T2" \in faults),
                   read_signed_short(img.T3, "T3" \in faults) >>,
          H |-> << img.H1,
                   read_signed_short(img.H2, "H2" \in faults),
                   img.H3,
                   dig_H4(img.e4, img.e5),
                   dig_H5(img.e5, img.e6),
                   dig_H6(img.H6) >>]

\* read_raw_data: the bit-packing of the burst; a fault gives (0, 0, 0).
\* data[i] here is data[i-1] of the source.
read_raw_data(data, fault) ==
    IF fault THEN [temp_raw |-> 0, press_raw |-> 0, hum_raw |-> 0]
    ELSE [press_raw |-> data[1] * 4096 + data[2] * 16 + (data[3] \div 16),
          temp_raw |-> data[4] * 4096 + data[5] * 16 + (data[6] \div 16),
          hum_raw |-> data[7] * 256 + data[8]]

\* A bug: the identity test also lets the byte 0x61 through.
ChipIdExpectedOrNext(chip) == chip \in {96, 97}

\* The test `chip_id != 0x60` of bme280_init, negated.
ChipIdExpected(chip) == chip = 96

\* The registers bme280_init writes, in order: reset, ctrl_hum, ctrl_meas,
\* config.
InitWrites ==
    << <<224, 182>>, <<BME280_REGISTER_CTRL_HUM, 1>>,
       <<BME280_REGISTER_CTRL_MEAS, 35>>, <<BME280_REGISTER_CONFIG, 0>> >>

\* A bug: the test misses the temperature sentinel 0x80000.
InvalidReadingButReset(temp_raw, hum_raw) ==
    temp_raw \in {1048575} \/ hum_raw \in {32768, 65535}

\* The test that skips a cycle: a raw code equal to a sentinel.
InvalidReading(temp_raw, hum_raw) ==
    temp_raw \in {524288, 1048575} \/ hum_raw \in {32768, 65535}

\* Lines 341-355: the Reading made from a raw sample.
MakeReading(temp_raw, hum_raw, calib) ==
    LET temp == compensate_temperature(temp_raw, calib.T)
        hum == compensate_humidity(hum_raw, calib.H, temp.t_fine)
    IN  [temperature |-> Some(temp.temperature),
         humidity |-> Some(Milli(hum, HumFrac)),
         heat_index |-> Some(calculate_heat_index(temp, hum))]

\* {k: None for k in sensor_data}, also the value sensor_data starts with.
Unavailable == [temperature |-> None, humidity |-> None, heat_index |-> None]

\* A bug: the except clause of the loop leaves sensor_data as it is.
LeftOnFailure(data) == data

\* Line 370: what the except clause of the loop makes of sensor_data.
ClearedOnFailure(data) == Unavailable

\* A bug: the handler takes the success branch whatever sensor_data holds.
AvailableAlways(data) == TRUE

\* Line 374: `sensor_data["temperature"] is not None`
Available(data) == data.temperature # None

(***************************************************************************)
(* Token Manager and Cloud Sync decisions.                                 *)
(***************************************************************************)
\* `not TUYA_ACCESS_TOKEN or time.time() > TUYA_TOKEN_EXPIRY`
NeedsRefresh(token, expiry, t) == token = None \/ t > expiry

\* `response.status_code == 200` and `data.get("success", False)`; a body
\* that is not JSON raises in response.json().
Accepted(resp) ==
    resp.kind = "http" /\ resp.status = 200 /\ resp.json /\ resp.success

\* The AuthToken after get_tuya_token has handled `resp` at time t: line 255
\* assigns the access token, line 256 the expiry; a key the body lacks
\* raises at the line that reads it.
TokenAfter(resp, token, expiry, t) ==
    IF ~Accepted(resp) \/ ~resp.result \/ resp.access_token = None
    THEN [token |-> token, expiry |-> expiry, ok |-> FALSE]
    ELSE IF resp.expire_time = None
    THEN [token |-> resp.access_token, expiry |-> expiry, ok |-> FALSE]
    ELSE [token |-> resp.access_token,
          expiry |-> t + Val(resp.expire_time) - 60, ok |-> TRUE]

\* A bug: a token request that failed is made again within the call.
AfterTokenRetry(ok) == IF ok THEN "push" ELSE "token"

\* A bug: the push is attempted whatever get_tuya_token returned.
AfterTokenPushAnyway(ok) == "push"

\* What send_to_tuya does when get_tuya_token returned `ok`.
AfterToken(ok) == IF ok THEN "push" ELSE "sync_ret"

\* A bug: the push is taken to be due in every cycle.
PushDueAlways(current, last) == TRUE

\* `current_time - last_tuya_update >= tuya_update_interval`
PushDue(current, last) == current - last >= tuya_update_interval

\* int(metric * 10) of a metric carried in thousandths: truncation toward
\* zero.
TenthsValue(milli) ==
    IF milli >= 0 THEN milli \div 100 ELSE -((-milli) \div 100)

\* The three command entries of the payload.
Commands(reading) ==
    << [code |-> "101", value |-> TenthsValue(Val(reading.temperature))],
       [code |-> "102", value |-> TenthsValue(Val(reading.humidity))],
       [code |-> "103", value |-> TenthsValue(Val(reading.heat_index))] >>

\* A bug: a failed attempt moves last_tuya_update too, so that the next
\* attempt waits (a backoff).
LastUpdateAfterBackoff(sent, current, last) ==
    IF sent THEN current ELSE current - tuya_update_interval + 60

\* A bug: the time of the attempt is recorded whatever send_to_tuya returned.
LastUpdateAfterAttempt(sent, current, last) == current

\* last_tuya_update after send_to_tuya returned `sent`.
LastUpdateAfter(sent, current, last) == IF sent THEN current ELSE last

\* f"{x:.2f}" of a metric carried in thousandths, as hundredths: the third
\* decimal rounds the second (a metric that is exactly k/8 rounds half to
\* even in Python; the thousandths do not tell it apart from its neighbours).
Format2(milli) ==
    IF milli >= 0 THEN (milli + 5) \div 10 ELSE -((-milli + 5) \div 10)

(***************************************************************************)
(* State.                                                                  *)
(***************************************************************************)
VARIABLES
    pc,                 \* where the acquisition thread (update_sensor_data) is
    chip_id,            \* the chip-identity byte bme280_init read, if any
    bus_writes,         \* the <<register, value>> pairs written to the bus
    calib_regs,         \* what the bus answered to read_calibration_data's reads
    calib_data,         \* update_sensor_data's calib_data, None before line 329
    cycle,              \* the passes of the while loop begun so far
    raw,                \* temp_raw, press_raw, hum_raw of the cycle
    reading,            \* the locals temperature, humidity, heat_index
    sensor_data,        \* the global sensor_data
    current_time,       \* the local current_time of line 360
    refresh,            \* whether line 272 found the token absent or expired
    ret,                \* what send_to_tuya returned
    TUYA_ACCESS_TOKEN,
    TUYA_TOKEN_EXPIRY,
    last_tuya_update,
    now,                \* time.time()
    requests,           \* the HTTP requests issued in this cycle, in order
    hpc,                \* where the request handler (get_sensor_data) is
    hdata,              \* the fields the handler has formatted so far
    response            \* the last response the handler returned

sensor_vars_but_pc == <<chip_id, bus_writes, calib_regs, calib_data, cycle, raw, reading, sensor_data>>
sensor_vars == <<pc, sensor_vars_but_pc>>
cloud_vars == <<current_time, refresh, ret, TUYA_ACCESS_TOKEN, TUYA_TOKEN_EXPIRY,
                last_tuya_update, requests>>
handler_vars == <<hpc, hdata, response>>
vars == <<sensor_vars, cloud_vars, now, handler_vars>>

NoRaw == [temp_raw |-> 0, press_raw |-> 0, hum_raw |-> 0]

Init ==
    /\ pc = "init"
    /\ chip_id = None
    /\ bus_writes = <<>>
    /\ calib_regs = None
    /\ calib_data = None
    /\ cycle = 0
    /\ raw = NoRaw
    /\ reading = Unavailable
    /\ sensor_data = Unavailable
    /\ current_time = 0
    /\ refresh = FALSE
    /\ ret = FALSE
    /\ TUYA_ACCESS_TOKEN = None
    /\ TUYA_TOKEN_EXPIRY = 0
    /\ last_tuya_update = 0
    /\ now = StartTime
    /\ requests = <<>>
    /\ hpc = "idle"
    /\ hdata = <<>>
    /\ response = None

(***************************************************************************)
(* The acquisition thread: update_sensor_data.                             *)
(***************************************************************************)
\* bme280_init and lines 324-327.  `chip` is the byte the chip-identity read
\* returns (None: the read faults), `written` the number of register writes
\* that succeed before one faults (all four: none faults).
BmeInit ==
    /\ pc = "init"
    /\ \E chip \in {Some(c) : c \in ChipIds} \cup {None},
          written \in 0..Len(InitWrites) :
         LET identified == chip # None /\ ChipIdExpected(Val(chip))
             ok == identified /\ written = Len(InitWrites)
         IN  /\ chip_id' = chip
             /\ bus_writes' = IF identified THEN SubSeq(InitWrites, 1, written)
                              ELSE <<>>
             /\ IF ok
                THEN pc' = "calibrate" /\ sensor_data' = sensor_data
                ELSE pc' = "failed" /\ sensor_data' = Unavailable
    /\ UNCHANGED <<calib_regs, calib_data, cycle, raw, reading, cloud_vars, now,
                   handler_vars>>

\* Line 329, the bus answering with one of `answers`: a register image and
\* the set of reads that fault.
CalibrateFrom(answers) ==
    /\ pc = "calibrate"
    /\ \E answer \in answers :
         /\ calib_regs' = Some([img |-> answer[1], faults |-> answer[2]])
         /\ calib_data' = Some(read_calibration_data(answer[1], answer[2]))
    /\ pc' = "read"
    /\ UNCHANGED <<chip_id, bus_writes, cycle, raw, reading, sensor_data,
                   cloud_vars, now, handler_vars>>

Calibrate == CalibrateFrom(CalibImages \X CalibFaults)

\* Line 333: the start of a cycle, one of the first `limit` cycles; the bus
\* answers with one of `bursts`, or faults.
ReadRawOf(bursts, limit) ==
    /\ pc = "read"
    /\ cycle < limit
    /\ cycle' = cycle + 1
    /\ \E data \in bursts, fault \in BOOLEAN :
         raw' = read_raw_data(data, fault)
    /\ requests' = <<>>
    /\ refresh' = FALSE
    /\ ret' = FALSE
    /\ pc' = "check"
    /\ UNCHANGED <<chip_id, bus_writes, calib_regs, calib_data, reading, sensor_data,
                   current_time, TUYA_ACCESS_TOKEN, TUYA_TOKEN_EXPIRY,
                   last_tuya_update, now, handler_vars>>

ReadRawWithin(limit) == ReadRawOf(Bursts, limit)

ReadRaw == ReadRawWithin(MaxCycles)

\* Lines 336-339 when the test holds, up to the sleep.
SkipInvalid ==
    /\ pc = "check"
    /\ InvalidReading(raw.temp_raw, raw.hum_raw)
    /\ pc' = "skip_sleep"
    /\ UNCHANGED <<chip_id, bus_writes, calib_regs, calib_data, cycle, raw, reading, sensor_data,
                   cloud_vars, now, handler_vars>>

\* time.sleep(1); continue
SkipSleep ==
    /\ pc = "skip_sleep"
    /\ \E d \in SkipSleepTimes : now' = now + d
    /\ pc' = "read"
    /\ UNCHANGED <<chip_id, bus_writes, calib_regs, calib_data, cycle, raw, reading, sensor_data,
                   cloud_vars, handler_vars>>

\* Lines 341-355: compensate and publish.
Publish ==
    /\ pc = "check"
    /\ ~InvalidReading(raw.temp_raw, raw.hum_raw)
    /\ reading' = MakeReading(raw.temp_raw, raw.hum_raw, Val(calib_data))
    /\ sensor_data' = reading'
    /\ pc' = "log"
    /\ UNCHANGED <<chip_id, bus_writes, calib_regs, calib_data, cycle, raw, cloud_vars, now,
                   handler_vars>>

\* Lines 368-370: an exception leaves the loop.  The statement of the loop
\* body that can raise outside the inner try blocks is the print of line
\* 357, whose text holds a non-ASCII character.
LoopRaises ==
    /\ pc = "log"
    /\ sensor_data' = ClearedOnFailure(sensor_data)
    /\ pc' = "failed"
    /\ UNCHANGED <<chip_id, bus_writes, calib_regs, calib_data, cycle, raw, reading, cloud_vars,
                   now, handler_vars>>

\* Lines 357-361: the print returns, the clock is read, the push is due or not.
CheckDue ==
    /\ pc = "log"
    /\ current_time' = now
    /\ pc' = IF PushDue(now, last_tuya_update) THEN "sync_check" ELSE "sleep"
    /\ UNCHANGED <<chip_id, bus_writes, calib_regs, calib_data, cycle, raw, reading, sensor_data,
                   refresh, ret, TUYA_ACCESS_TOKEN, TUYA_TOKEN_EXPIRY,
                   last_tuya_update, requests, now, handler_vars>>
(***************************************************************************)
(* send_to_tuya and get_tuya_token, called from line 362.                  *)
(***************************************************************************)
\* Line 272.
SyncCheck ==
    /\ pc = "sync_check"
    /\ refresh' = NeedsRefresh(TUYA_ACCESS_TOKEN, TUYA_TOKEN_EXPIRY, now)
    /\ pc' = IF refresh' THEN "token" ELSE "push"
    /\ UNCHANGED <<sensor_vars_but_pc, current_time, ret, TUYA_ACCESS_TOKEN,
                   TUYA_TOKEN_EXPIRY, last_tuya_update, requests, now,
                   handler_vars>>

\* get_tuya_token (line 273): the GET is issued at `now`, answered d seconds
\* later with one of `responses`; line 256 reads the clock after the answer.
GetTokenFrom(responses) ==
    /\ pc = "token"
    /\ \E resp \in responses, d \in NetDelays :
         /\ now' = now + d
         /\ LET after == TokenAfter(resp, TUYA_ACCESS_TOKEN, TUYA_TOKEN_EXPIRY, now')
            IN  /\ TUYA_ACCESS_TOKEN' = after.token
                /\ TUYA_TOKEN_EXPIRY' = after.expiry
                /\ requests' = Append(requests,
                       [kind |-> "token", at |-> now, ok |-> after.ok])
                /\ pc' = AfterToken(after.ok)
    /\ ret' = FALSE
    /\ UNCHANGED <<sensor_vars_but_pc, current_time, refresh, last_tuya_update,
                   handler_vars>>

GetToken == GetTokenFrom(TokenResponses)

\* Lines 277-317: the POST is issued at `now` with the token held then and
\* answered with one of `responses`.
PushReadingFrom(responses) ==
    /\ pc = "push"
    /\ \E resp \in responses, d \in NetDelays :
         /\ now' = now + d
         /\ requests' = Append(requests,
                [kind |-> "push", at |-> now, ok |-> Accepted(resp),
                 access_token |-> TUYA_ACCESS_TOKEN,
                 expiry |-> TUYA_TOKEN_EXPIRY,
                 commands |-> Commands(reading)])
         /\ ret' = Accepted(resp)
    /\ pc' = "sync_ret"
    /\ UNCHANGED <<sensor_vars_but_pc, current_time, refresh, TUYA_ACCESS_TOKEN,
                   TUYA_TOKEN_EXPIRY, last_tuya_update, handler_vars>>

PushReading == PushReadingFrom(PushResponses)

\* A bug: a sync that did not succeed ends the loop.
AfterSyncFailing(sent) == IF sent THEN "sleep" ELSE "failed"

\* Where the loop goes when send_to_tuya has returned: lines 362-367 fall
\* through to the sleep on either result.
AfterSync(sent) == "sleep"

\* Lines 362-365.
SyncReturn ==
    /\ pc = "sync_ret"
    /\ last_tuya_update' = LastUpdateAfter(ret, current_time, last_tuya_update)
    /\ pc' = AfterSync(ret)
    /\ UNCHANGED <<sensor_vars_but_pc, current_time, refresh, ret,
                   TUYA_ACCESS_TOKEN, TUYA_TOKEN_EXPIRY, requests, now,
                   handler_vars>>

\* Line 367: time.sleep(2).
Sleep ==
    /\ pc = "sleep"
    /\ \E d \in SleepTimes : now' = now + d
    /\ pc' = "read"
    /\ UNCHANGED <<sensor_vars_but_pc, cloud_vars, handler_vars>>

(***************************************************************************)
(* The query interface: get_sensor_data, in a thread of the web server.    *)
(* Each evaluation of the global sensor_data is a step of its own.         *)
(***************************************************************************)
Unavailable500 == [status |-> 500, body |-> "Sensor data not available"]
\* What the server answers when the view function raises.
InternalError500 == [status |-> 500, body |-> "Internal Server Error"]

\* Line 374.
HandlerCheck ==
    /\ hpc = "idle"
    /\ hdata' = <<>>
    /\ IF Available(sensor_data)
       THEN hpc' = "temperature" /\ response' = None
       ELSE hpc' = "idle" /\ response' = Unavailable500
    /\ UNCHANGED <<sensor_vars, cloud_vars, now>>

\* One of lines 378-380: sensor_data[key] formatted with :.2f; formatting
\* None raises TypeError.
HandlerField(at, key, next) ==
    /\ hpc = at
    /\ IF sensor_data[key] = None
       THEN hpc' = "idle" /\ hdata' = <<>> /\ response' = InternalError500
       ELSE /\ hpc' = next
            /\ hdata' = Append(hdata, Format2(Val(sensor_data[key])))
            /\ response' = response
    /\ UNCHANGED <<sensor_vars, cloud_vars, now>>

HandlerTemperature == HandlerField("temperature", "temperature", "humidity")
HandlerHumidity == HandlerField("humidity", "humidity", "heat_index")
HandlerHeatIndex == HandlerField("heat_index", "heat_index", "last_update")

\* Lines 382-384: the rest of the body, and the response.
HandlerRespond ==
    /\ hpc = "last_update"
    /\ response' = [status |-> 200,
                    data |-> [temperature |-> hdata[1], humidity |-> hdata[2],
                              heat_index |-> hdata[3]],
                    last_update |-> last_tuya_update]
    /\ hdata' = <<>>
    /\ hpc' = "idle"
    /\ UNCHANGED <<sensor_vars, cloud_vars, now>>

(***************************************************************************)
(* Spec: the acquisition thread with the Token Manager and Cloud Sync.     *)
(***************************************************************************)
Next ==
    \/ BmeInit
    \/ Calibrate
    \/ ReadRaw
    \/ SkipInvalid
    \/ SkipSleep
    \/ Publish
    \/ LoopRaises
    \/ CheckDue
    \/ SyncCheck
    \/ GetToken
    \/ PushReading
    \/ SyncReturn
    \/ Sleep

Spec == Init /\ [][Next]_vars

(***************************************************************************)
(* QuerySpec: the acquisition thread interleaved with the request handler, *)
(* step by step.  The handler reads sensor_data and last_tuya_update and   *)
(* writes neither, so the cloud authority answers from fewer cases here    *)
(* and the thread is followed for fewer cycles.                            *)
(***************************************************************************)
QueryCycles == 2
QueryTokenResponses ==
    { NetworkFault, HttpResponse(200, TRUE, TRUE, TRUE, Some("tokA"), Some(360)) }
QueryPushResponses ==
    { NetworkFault, HttpResponse(200, TRUE, TRUE, FALSE, None, None) }

QueryNext ==
    \/ BmeInit
    \/ Calibrate
    \/ ReadRawWithin(QueryCycles)
    \/ SkipInvalid
    \/ SkipSleep
    \/ Publish
    \/ LoopRaises
    \/ CheckDue
    \/ SyncCheck
    \/ GetTokenFrom(QueryTokenResponses)
    \/ PushReadingFrom(QueryPushResponses)
    \/ SyncReturn
    \/ Sleep
    \/ HandlerCheck
    \/ HandlerTemperature
    \/ HandlerHumidity
    \/ HandlerHeatIndex
    \/ HandlerRespond

QuerySpec == Init /\ [][QueryNext]_vars

(***************************************************************************)
(* LiveSpec: Spec with the thread kept running.  Every step of the thread  *)
(* ends: the sleeps return, the two HTTP calls carry timeout=10 and return *)
(* or raise, and the bus reads return or raise; the scheduler runs the     *)
(* thread whenever it can take a step.                                     *)
(***************************************************************************)
\* The steps of the thread other than Publish.
ThreadStep ==
    \/ BmeInit
    \/ Calibrate
    \/ ReadRaw
    \/ SkipInvalid
    \/ SkipSleep
    \/ LoopRaises
    \/ CheckDue
    \/ SyncCheck
    \/ GetToken
    \/ PushReading
    \/ SyncReturn
    \/ Sleep

\* The step Publish, told by its guard and by where it leads: in Spec no
\* other step goes from "check" to "log".  Whether it can be taken does not
\* depend on the Reading it computes.
Published ==
    /\ pc = "check"
    /\ ~InvalidReading(raw.temp_raw, raw.hum_raw)
    /\ pc' = "log"

LiveSpec == Spec /\ WF_vars(ThreadStep) /\ WF_pc(Published)

(***************************************************************************)
(* LoaderSpec: bme280_init and the Calibration Loader on their own, the    *)
(* bus answering from LoaderAnswers.                                       *)
(***************************************************************************)
LoaderNext ==
    \/ BmeInit
    \/ CalibrateFrom(LoaderAnswers)

LoaderSpec == Init /\ [][LoaderNext]_vars

(***************************************************************************)
(* EngineSpec: one cycle of the loop up to the publication of its Reading, *)
(* the bus answering from EngineAnswers and EngineBursts.                  *)
(***************************************************************************)
EngineNext ==
    \/ BmeInit
    \/ CalibrateFrom(EngineAnswers)
    \/ ReadRawOf(EngineBursts, 1)
    \/ SkipInvalid
    \/ Publish

EngineSpec == Init /\ [][EngineNext]_vars

(***************************************************************************)
(* Properties.                                                             *)
(***************************************************************************)
TokenRequests == {i \in DOMAIN requests : requests[i].kind = "token"}
PushRequests == {i \in DOMAIN requests : requests[i].kind = "push"}

\* C1: in a call of send_to_tuya that found the token absent or expired
\* (line 272), the first request is the one token request of the call and no
\* push precedes it; when that token request failed, no push request is
\* issued and the call returns False.  A push that no token request
\* precedes is one whose token was held and not expired at the check.
C1_OneRefreshBeforePush ==
    /\ refresh =>
        /\ pc = "token" => requests = <<>>
        /\ pc # "token" =>
             /\ TokenRequests = {1}
             /\ ~requests[1].ok =>
                  /\ PushRequests = {}
                  /\ ret = FALSE
                  /\ pc \in {"sync_ret", "sleep", "read"}
    /\ \A i \in PushRequests :
         TokenRequests = {} =>
             /\ requests[i].access_token # None
             /\ requests[i].at <= requests[i].expiry

\* C1, its case: the token was absent or expired, the one token request
\* failed and send_to_tuya is returning.
C1_Witness ==
    /\ refresh
    /\ pc = "sync_ret"
    /\ Len(requests) = 1
    /\ requests[1].kind = "token"
    /\ ~requests[1].ok

\* C2: no push request is issued with an access token whose stored expiry
\* has passed at the moment the request is issued.
C2_NoPushWithExpiredToken ==
    \A i \in PushRequests : ~(requests[i].at > requests[i].expiry)

\* C3: last_tuya_update changes only on the return of a send_to_tuya whose
\* push was answered 200 with a true success flag, and then it grows; on the
\* return of any other send_to_tuya it keeps its value.
C3_LastUpdateOnlyOnConfirmedPush ==
    [][ /\ last_tuya_update' # last_tuya_update =>
             /\ pc = "sync_ret"
             /\ ret
             /\ \E i \in PushRequests : requests[i].ok
             /\ last_tuya_update' > last_tuya_update
        /\ (pc = "sync_ret" /\ ~ret) => last_tuya_update' = last_tuya_update
      ]_vars

\* C3, its case: a push was confirmed earlier, and a later sync that was due
\* has ended Deferred and left last_tuya_update alone.
C3_Witness ==
    /\ last_tuya_update > 0
    /\ pc = "sleep"
    /\ requests # <<>>
    /\ ~ret
    /\ current_time > last_tuya_update

\* The Readings the thread can publish with the calibration it holds, as
\* the handler formats them.
FormattedReadings ==
    IF calib_data = None THEN {}
    ELSE { LET r == MakeReading(read_raw_data(b, f).temp_raw,
                                read_raw_data(b, f).hum_raw, Val(calib_data))
           IN  [temperature |-> Format2(Val(r.temperature)),
                humidity |-> Format2(Val(r.humidity)),
                heat_index |-> Format2(Val(r.heat_index))] :
           b \in Bursts, f \in BOOLEAN }

\* C4: a success response reports the temperature, humidity and heat index
\* of one and the same Reading, and no request that passed the availability
\* check of line 374 meets a Reading that has become unavailable.
C4_ResponseFromOneReading ==
    response # None =>
        /\ response.status = 200 => response.data \in FormattedReadings
        /\ response # InternalError500

\* C5: a cycle whose raw temperature or humidity is a sentinel code leaves
\* sensor_data as it was, issues no request, and goes on through the
\* one-second sleep to the next read.
C5_SentinelSkipsCycle ==
    [][ /\ ( /\ pc = "check"
             /\ \/ raw.temp_raw \in {524288, 1048575}
                \/ raw.hum_raw \in {32768, 65535} ) =>
               /\ pc' = "skip_sleep"
               /\ sensor_data' = sensor_data
               /\ requests' = <<>>
        /\ pc = "skip_sleep" =>
               /\ pc' = "read"
               /\ sensor_data' = sensor_data
               /\ requests' = <<>>
      ]_vars

\* C5, its case: a sentinel cycle is being skipped while sensor_data holds
\* the Reading of an earlier cycle.
C5_Witness ==
    /\ pc = "skip_sleep"
    /\ raw.temp_raw = 524288
    /\ sensor_data # Unavailable

\* C6: when the chip-identity read returned a byte other than 0x60, the
\* thread has failed with no register written, no calibration loaded and no
\* sample taken, and sensor_data is unavailable.
C6_WrongChipFails ==
    (chip_id # None /\ Val(chip_id) # 96) =>
        /\ pc = "failed"
        /\ bus_writes = <<>>
        /\ calib_data = None
        /\ cycle = 0
        /\ sensor_data = Unavailable

\* C6, its case: the chip answered 0x61.
C6_Witness == chip_id = Some(97) /\ pc = "failed"

\* C7: whenever the acquisition thread has stopped, sensor_data is
\* unavailable, and from then on the thread stays stopped and sensor_data
\* is not assigned again.
C7_FailedMeansUnavailable ==
    /\ [](pc = "failed" => sensor_data = Unavailable)
    /\ [][pc = "failed" => (pc' = "failed" /\ sensor_data' = sensor_data)]_vars

\* C7, its case: the loop has published a Reading and an exception has then
\* left it.
C7_Witness == pc = "failed" /\ reading # Unavailable

\* C8: while no Reading has been published, or after the thread has stopped,
\* sensor_data is unavailable; a request whose check (line 374) finds it so
\* is answered with the 500 "not available" error and goes no further, and
\* a success response comes only at the end of a request whose check found
\* a Reading.
C8_UnavailableIs500 ==
    /\ []((reading = Unavailable \/ pc = "failed") => sensor_data = Unavailable)
    /\ [][ /\ (hpc = "idle" /\ sensor_data.temperature = None) =>
                /\ hpc' = "idle"
                /\ response' \in {response, Unavailable500}
           /\ (response' # response /\ response' # None /\ response'.status = 200) =>
                hpc = "last_update"
         ]_vars

\* C8, its case: a Reading was published, the thread then stopped, and a
\* request made after that was answered with the 500 error.
C8_Witness ==
    /\ pc = "failed"
    /\ reading # Unavailable
    /\ response = Unavailable500

\* C9: the steps of send_to_tuya and get_tuya_token, whatever the cloud
\* answers, leave sensor_data alone and never stop the thread: through the
\* sync and the sleep after it sensor_data is the Reading of this cycle, and
\* after a sync that returned False the loop sleeps and reads the next
\* sample.
C9_CloudPathIsolated ==
    /\ [](pc \in {"sync_check", "token", "push", "sync_ret", "sleep"} =>
            (sensor_data = reading /\ reading # Unavailable))
    /\ [][ /\ pc \in {"sync_check", "token", "push", "sync_ret"} =>
                (sensor_data' = sensor_data /\ pc' # "failed")
           /\ (pc = "sync_ret" /\ ~ret) => pc' \in {"sync_ret", "sleep"}
           /\ pc = "sleep" => pc' \in {"sleep", "read"}
         ]_vars

\* C9, its case: a sync has ended Deferred after a push request that failed,
\* and the loop is in its sleep with the Reading of the cycle published.
C9_Witness ==
    /\ pc = "sleep"
    /\ PushRequests # {}
    /\ ~ret
    /\ sensor_data = reading
    /\ reading # Unavailable

\* C10: a get_tuya_token that returns False leaves both the access token and
\* its expiry as they were.
C10_TokenReplacedWholesale ==
    [][ (pc = "token" /\ pc' # "token" /\ ~requests'[Len(requests')].ok) =>
            /\ TUYA_ACCESS_TOKEN' = TUYA_ACCESS_TOKEN
            /\ TUYA_TOKEN_EXPIRY' = TUYA_TOKEN_EXPIRY
      ]_vars

\* C11: when any of the bus reads of read_calibration_data has failed, the
\* coefficient set it returns is exactly the nominal one.
C11_AnyFaultGivesDefaults ==
    (calib_regs # None /\ Val(calib_regs).faults # {}) =>
        calib_data = Some(DefaultCalibration)

\* C15 as stated: the bytes e4 = 0x12, e5 = 0x34, e6 = 0x56, read without a
\* fault, unpack to H4 = 0x123 and H5 = 0x563.
C15_UnpackAsStated ==
    ( /\ calib_regs # None
      /\ Val(calib_regs).img.e4 = 18
      /\ Val(calib_regs).img.e5 = 52
      /\ Val(calib_regs).img.e6 = 86
      /\ Val(calib_regs).faults \cap {"H1", "H3", "e4", "e5", "e6", "H6"} = {} ) =>
        /\ Val(calib_data).H[4] = 291
        /\ Val(calib_data).H[5] = 1379

\* C15, amended: the bytes e4 = 0x12, e5 = 0x34, e6 = 0x56, read without a
\* fault, unpack to H4 = 0x124 (e4 over the low nibble of e5) and H5 = 0x563
\* (e6 over the high nibble of e5).
C15_UnpackH4H5 ==
    ( /\ calib_regs # None
      /\ Val(calib_regs).img.e4 = 18
      /\ Val(calib_regs).img.e5 = 52
      /\ Val(calib_regs).img.e6 = 86
      /\ Val(calib_regs).faults \cap {"H1", "H3", "e4", "e5", "e6", "H6"} = {} ) =>
        /\ Val(calib_data).H[4] = 292
        /\ Val(calib_data).H[5] = 1379

\* C15, its case: those three bytes were read and the coefficient set came
\* from the device.
C15_Witness ==
    /\ calib_regs # None
    /\ Val(calib_regs).img.e4 = 18
    /\ Val(calib_regs).img.e5 = 52
    /\ Val(calib_regs).img.e6 = 86
    /\ Val(calib_regs).faults = {}
    /\ Val(calib_data) # DefaultCalibration

\* C16: the signed decode of the two bytes (b0, b1) read at 0x8A without a
\* fault is the one number of -32768..32767 that differs from b0 + 256*b1
\* by a multiple of 65536: that number itself below 32768, and 65536 less
\* from there on; [0xFF, 0xFF] gives -1 and [0x00, 0x80] gives -32768.
C16_SignedShortDecode ==
    (calib_regs # None /\ Val(calib_regs).faults = {}) =>
        LET b == Val(calib_regs).img.T2
            u == b[1] + 256 * b[2]
            v == Val(calib_data).T[2]
        IN  /\ v \in -32768..32767
            /\ (v - u) % 65536 = 0
            /\ u < 32768 => v = u
            /\ u >= 32768 => v = u - 65536
            /\ b = <<255, 255>> => v = -1
            /\ b = <<0, 128>> => v = -32768

\* C16, its case: the bytes [0x00, 0x80] were read and decoded.
C16_Witness ==
    /\ calib_regs # None
    /\ Val(calib_regs).faults = {}
    /\ Val(calib_regs).img.T2 = <<0, 128>>
    /\ Val(calib_data).T[2] = -32768

\* C12: send_to_tuya runs only in a cycle that has published its Reading and
\* found 300 seconds or more elapsed since last_tuya_update, and every token
\* or push request is issued 300 seconds or more after the last_tuya_update
\* held at that moment.
C12_SyncOnlyWhenDue ==
    /\ [](pc \in {"sync_check", "token", "push", "sync_ret"} =>
            /\ reading # Unavailable
            /\ sensor_data = reading
            /\ current_time - last_tuya_update >= 300)
    /\ [][ /\ (pc' = "sync_check" /\ pc # "sync_check") => pc = "log"
           /\ (pc' = "log" /\ pc # "log") =>
                (pc = "check" /\ sensor_data' = reading' /\ reading' # Unavailable)
           /\ (requests' # requests /\ requests' # <<>>) =>
                /\ Len(requests') = Len(requests) + 1
                /\ requests'[Len(requests')].at >= last_tuya_update + 300
                /\ last_tuya_update' = last_tuya_update
         ]_vars

\* C12, its case: a push was confirmed, and a later cycle that published its
\* Reading less than 300 seconds after it has gone to its sleep without a
\* request.
C12_Witness ==
    /\ last_tuya_update > 0
    /\ pc = "sleep"
    /\ requests = <<>>
    /\ current_time > last_tuya_update
    /\ current_time - last_tuya_update < 300

\* C13: whether a cycle that has published its Reading calls send_to_tuya
\* depends on the due test alone, whatever earlier syncs returned; and after
\* a sync that returned False, with the loop running on, the loop comes to
\* a sync that succeeds and advances last_tuya_update, unless before that a
\* sample is invalid, a token or push request fails again, or the thread
\* stops.
C13_DeferredIsRetried ==
    /\ [][ (pc = "log" /\ pc' \notin {"log", "failed"}) =>
              /\ now - last_tuya_update >= 300 => pc' = "sync_check"
              /\ now - last_tuya_update < 300 => pc' = "sleep"
         ]_vars
    /\ (pc = "sleep" /\ requests # <<>> /\ ~ret /\ cycle < MaxCycles)
          ~> \/ (pc = "sleep" /\ ret /\ last_tuya_update = current_time)
             \/ pc = "skip_sleep"
             \/ (pc = "sync_ret" /\ ~ret)
             \/ pc = "failed"

\* C13, its case: the second cycle has pushed with success less than 300
\* seconds after the start, so the first cycle was not skipped (the second
\* would have read the clock one second after the start) and its sync, due
\* at the start, was not confirmed: it ended Deferred.
C13_Witness ==
    /\ cycle = 2
    /\ pc = "sleep"
    /\ ret
    /\ last_tuya_update = current_time
    /\ current_time - StartTime \in 3..299

\* C14: each command entry of a push carries the metric of the cycle's
\* Reading times ten, rounded to the nearest integer.  A metric is known
\* here to its thousandths, truncated: when they end in 50 the metric may
\* lie on the half or above it, and either neighbour is accepted.
C14_CommandsAreRounded ==
    LET Down(m) == IF m >= 0 THEN m \div 100 ELSE -((-m + 99) \div 100)
        Nearest(m) ==
            LET r == (m - Down(m) * 100)
            IN  IF r < 50 THEN {Down(m)}
                ELSE IF r > 50 THEN {Down(m) + 1}
                ELSE {Down(m), Down(m) + 1}
    IN  \A i \in PushRequests :
          /\ requests[i].commands[1].value \in Nearest(Val(reading.temperature))
          /\ requests[i].commands[2].value \in Nearest(Val(reading.humidity))
          /\ requests[i].commands[3].value \in Nearest(Val(reading.heat_index))

\* C17: the humidity of every Reading the engine produces, whatever the raw
\* code, the coefficients and t_fine, lies in 0.0 .. 100.0 (0 .. 100000
\* thousandths).
C17_HumidityClamped ==
    /\ reading.humidity # None =>
          (Val(reading.humidity) >= 0 /\ Val(reading.humidity) <= 100000)
    /\ sensor_data.humidity # None =>
          (Val(sensor_data.humidity) >= 0 /\ Val(sensor_data.humidity) <= 100000)

\* C17, its case: the raw humidity 0xFFFE under the coefficients of the
\* device, whose polynomial exceeds 100, published as 100.0.
C17_Witness ==
    /\ pc = "log"
    /\ raw.hum_raw = 65534
    /\ Val(calib_regs).img \in CalibImages
    /\ Val(calib_regs).faults = {}
    /\ sensor_data.humidity = Some(100000)

\* C18: a published Reading whose temperature is below 26.0 has that
\* temperature as its heat index.
C18_HeatIndexBelowThreshold ==
    (sensor_data.temperature # None /\ Val(sensor_data.temperature) < 26000) =>
        sensor_data.heat_index = sensor_data.temperature

\* C18, its case: a Reading between 0 and 26 degrees with a humidity
\* strictly between the clamps.
C18_Witness ==
    /\ pc = "log"
    /\ Val(sensor_data.temperature) > 0
    /\ Val(sensor_data.temperature) < 26000
    /\ Val(sensor_data.humidity) > 0
    /\ Val(sensor_data.humidity) < 100000
    /\ sensor_data.heat_index = sensor_data.temperature

\* C19: a cycle whose burst read failed publishes nothing: sensor_data
\* keeps its value through the cycle.  A failed read hands the loop
\* (0, 0, 0), and no burst of Bursts decodes to that (their pressure field
\* is not zero).
C19_FaultedReadPublishesNothing ==
    [][ (pc = "check" /\ raw = [temp_raw |-> 0, press_raw |-> 0, hum_raw |-> 0]) =>
            sensor_data' = sensor_data
      ]_vars

\* C20: in one cycle at most one token request and at most one push request
\* are issued, the token request first; the Reading published in a cycle is
\* the one made from the sample read in that cycle, it stays the cycle's
\* Reading until the next read, requests are issued only after it is
\* published, and the commands of the push are those of that Reading.
C20_OnePushOfThisCyclesReading ==
    /\ [](/\ Cardinality(TokenRequests) <= 1
          /\ Cardinality(PushRequests) <= 1
          /\ \A i \in TokenRequests : \A j \in PushRequests : i < j)
    /\ [](pc = "log" =>
            /\ requests = <<>>
            /\ reading = MakeReading(raw.temp_raw, raw.hum_raw, Val(calib_data))
            /\ sensor_data = reading)
    /\ [][ (pc \in {"log", "sync_check", "token", "push", "sync_ret", "sleep"}) =>
              /\ reading' = reading
              /\ raw' = raw
              /\ cycle' = cycle
         ]_vars
    /\ [](requests # <<>> =>
            /\ pc \in {"token", "push", "sync_ret", "sleep", "read"}
            /\ sensor_data = reading
            /\ \A j \in PushRequests :
                  requests[j].commands = Commands(sensor_data))

\* C20, its case: a cycle after the first has refreshed the token and
\* pushed its Reading.
C20_Witness ==
    /\ cycle > 1
    /\ pc = "sleep"
    /\ Len(requests) = 2
    /\ requests[1].kind = "token"
    /\ requests[2].kind = "push"
    /\ sensor_data = reading

=============================================================================
